---- MODULE Spec2Model ----
(***************************************************************************)
(* Model of the retrieval-and-synthesis pipeline of src/rag_demo.py        *)
(* (class TravelPolicyRAG): the keyword similarity scorer, the metadata-   *)
(* filtered top-k retriever, the rule-based answer synthesizer and the     *)
(* query orchestrator.                                                     *)
(*                                                                         *)
(* Texts are TLA+ strings handled character by character (Len, SubSeq and  *)
(* \o), so that substring tests, the space-delimited whole-word test and   *)
(* the \b\w+\b tokenizer are computed as Python computes them.  Scores are *)
(* IEEE-754 doubles <<e, hi, lo>> with a 53-bit mantissa hi*2^26 + lo and  *)
(* every operation rounded to nearest-even, as CPython floats are.         *)
(***************************************************************************)
EXTENDS Integers, Sequences, FiniteSets, TLC

(***************************************************************************)
(* The corpus built by TravelPolicyRAG._load_documents.                    *)
(***************************************************************************)
LoadDocuments ==
   <<
      [id |-> "policy_01",
       content |-> "Company Travel Policy: All employees must book economy class for domestic flights unless the flight duration exceeds 4 hours, in which case premium economy is permitted. Business class is only approved for international flights over 6 hours duration. First class requires executive approval.",
       metadata |-> [category |-> "flight_class", region |-> "global"]],
      [id |-> "policy_02",
       content |-> "Hotel Booking Policy: Standard room rates should not exceed $200 USD per night for domestic travel and $300 USD for international travel. Employees can book 4-star hotels or below. 5-star hotels require manager approval. Cancellations must be made 24 hours in advance to avoid penalties.",
       metadata |-> [category |-> "hotel", region |-> "global"]],
      [id |-> "policy_03",
       content |-> "Ticket Change and Refund Policy: Flight tickets can be refunded within 24 hours of booking for a full refund. After 24 hours, refunds incur a $200 fee for domestic and $400 for international flights. Changes can be made up to 2 hours before departure with applicable airline fees.",
       metadata |-> [category |-> "changes", vendor |-> "all"]],
      [id |-> "policy_04",
       content |-> "Meal Allowance: Daily meal allowance is $50 for domestic travel and $75 for international travel. Receipts required for all expenses over $25. Alcohol is not reimbursable. Team dinners with clients can exceed limits with pre-approval.",
       metadata |-> [category |-> "meals", region |-> "global"]],
      [id |-> "policy_05",
       content |-> "Ground Transportation: Use company-preferred vendors when available. Taxi and rideshare allowed for trips under $50. Car rentals permitted for trips over 3 days or when more economical. Luxury vehicles are not reimbursable.",
       metadata |-> [category |-> "transport", region |-> "global"]],
      [id |-> "policy_06",
       content |-> "Airline Specific - Air China: Preferred carrier for China domestic routes. Corporate discount code: EBUDDY2025. Includes priority check-in and 2 free checked bags. Changes allowed up to 6 hours before departure without fee.",
       metadata |-> [category |-> "airline", vendor |-> "Air China"]],
      [id |-> "policy_07",
       content |-> "Travel Insurance: Mandatory for all international trips. Coverage includes medical emergencies, trip cancellation, and lost luggage. Premium is company-paid. Claims must be filed within 30 days of incident.",
       metadata |-> [category |-> "insurance", region |-> "international"]],
      [id |-> "policy_08",
       content |-> "Booking Timeline: All travel must be booked at least 7 days in advance for best rates. Last-minute bookings (less than 48 hours) require manager approval and justification. Use company travel portal for all bookings to ensure policy compliance.",
       metadata |-> [category |-> "booking", region |-> "global"]],
      [id |-> "policy_09",
       content |-> "Per Diem Rates: Shanghai: 500 CNY per day, Beijing: 450 CNY per day, Tokyo: 8000 JPY per day, Singapore: 150 SGD per day. Rates include meals and incidentals. Unused per diem cannot be claimed. Weekend travel includes 50% per diem unless working.",
       metadata |-> [category |-> "per_diem", region |-> "asia"]],
      [id |-> "policy_10",
       content |-> "Visa and Documentation: Company covers visa fees for business travel. Applications must be submitted 30 days before travel. Passport must be valid for 6 months beyond travel dates. Keep copies of all travel documents in company portal.",
       metadata |-> [category |-> "visa", region |-> "international"]]
   >>

(***************************************************************************)
(* Python str helpers.                                                     *)
(***************************************************************************)
ToLower ==
   [A |-> "a", B |-> "b", C |-> "c", D |-> "d", E |-> "e", F |-> "f", G |-> "g",
    H |-> "h", I |-> "i", J |-> "j", K |-> "k", L |-> "l", M |-> "m", N |-> "n",
    O |-> "o", P |-> "p", Q |-> "q", R |-> "r", S |-> "s", T |-> "t", U |-> "u",
    V |-> "v", W |-> "w", X |-> "x", Y |-> "y", Z |-> "z"]

\* str.lower() of one character
LowerChar(c) == IF c \in DOMAIN ToLower THEN ToLower[c] ELSE c

\* str.lower(): every character lowered, the text taken by quarters
RECURSIVE Lower(_)
Lower(s) ==
   IF Len(s) = 0 THEN ""
   ELSE IF Len(s) = 1 THEN LowerChar(s)
   ELSE LET n == Len(s)
            a == n \div 4
            b == n \div 2
            c == b + a
        IN  Lower(SubSeq(s, 1, a)) \o Lower(SubSeq(s, a + 1, b))
               \o Lower(SubSeq(s, b + 1, c)) \o Lower(SubSeq(s, c + 1, n))

\* the characters the regular expression class \w matches in a lowercased
\* ASCII text
WordChars ==
   {"a", "b", "c", "d", "e", "f", "g", "h", "i", "j", "k", "l", "m", "n", "o",
    "p", "q", "r", "s", "t", "u", "v", "w", "x", "y", "z", "0", "1", "2", "3",
    "4", "5", "6", "7", "8", "9", "_"}

CharAt(s, i) == SubSeq(s, i, i)

\* Python's `t in s` for strings
Contains(s, t) ==
   \E i \in 1..(Len(s) - Len(t) + 1) : SubSeq(s, i, i + Len(t) - 1) = t

\* s[:n] for n >= 0
Prefix(s, n) == IF Len(s) <= n THEN s ELSE SubSeq(s, 1, n)

\* set(re.findall(r'\b\w+\b', s)): the maximal runs of word characters
FindWords(s) ==
   LET IsWord(i) == CharAt(s, i) \in WordChars
       Starts == {i \in 1..Len(s) : IsWord(i) /\ (i = 1 \/ ~IsWord(i - 1))}
       EndOf(i) == CHOOSE j \in i..Len(s) :
                      /\ \A k \in i..j : IsWord(k)
                      /\ (j = Len(s) \/ ~IsWord(j + 1))
   IN  {SubSeq(s, i, EndOf(i)) : i \in Starts}

(***************************************************************************)
(* Python floats.  A double is [e, hi, lo] standing for                    *)
(* (hi * 2^26 + lo) * 2^(e - 52) with 2^26 <= hi < 2^27 and 0 <= lo < 2^26, *)
(* or FloatZero.  Each operation returns the exact result rounded to       *)
(* nearest, ties to even.                                                  *)
(***************************************************************************)
FloatZero == [e |-> 0, hi |-> 0, lo |-> 0]

\* the literal 1.0
FloatOne == [e |-> 0, hi |-> 2^26, lo |-> 0]

\* x < y
FloatLess(x, y) ==
   IF y.hi = 0 THEN FALSE
   ELSE IF x.hi = 0 THEN TRUE
   ELSE \/ x.e < y.e
        \/ x.e = y.e /\ x.hi < y.hi
        \/ x.e = y.e /\ x.hi = y.hi /\ x.lo < y.lo

\* the next double above x (the mantissa rounded up by one unit)
FloatNextUp(x) ==
   IF x.lo + 1 < 2^26 THEN [x EXCEPT !.lo = x.lo + 1]
   ELSE IF x.hi + 1 < 2^27 THEN [x EXCEPT !.hi = x.hi + 1, !.lo = 0]
   ELSE [e |-> x.e + 1, hi |-> 2^26, lo |-> 0]

\* <<num, den, e>> with a / b = (num / den) * 2^e and 1 <= num / den < 2
RECURSIVE Normalize(_, _, _)
Normalize(a, b, e) ==
   IF a < b THEN Normalize(2 * a, b, e - 1)
   ELSE IF a >= 2 * b THEN Normalize(a, 2 * b, e + 1)
   ELSE <<a, b, e>>

\* a / b for integers a >= 0 and 0 < b < 2^16 (true division): the leading
\* mantissa bit, then 52 quotient bits taken 13 at a time, then the rounding
FloatDiv(a, b) ==
   IF a = 0 THEN FloatZero
   ELSE LET n   == Normalize(a, b, 0)
            den == n[2]
            r0  == n[1] - den
            r1  == (r0 * 2^13) % den
            r2  == (r1 * 2^13) % den
            r3  == (r2 * 2^13) % den
            r4  == (r3 * 2^13) % den
            t   == [e  |-> n[3],
                    hi |-> 2^26 + ((r0 * 2^13) \div den) * 2^13
                                + ((r1 * 2^13) \div den),
                    lo |-> ((r2 * 2^13) \div den) * 2^13
                                + ((r3 * 2^13) \div den)]
            up  == \/ 2 * r4 > den
                   \/ 2 * r4 = den /\ t.lo % 2 = 1
        IN  IF up THEN FloatNextUp(t) ELSE t

\* x * 1.5
FloatMul15(x) ==
   IF x.hi = 0 THEN FloatZero
   ELSE LET L  == 3 * x.lo
            H  == 3 * x.hi + (L \div 2^26)
            L0 == L % 2^26
        IN  IF H < 2^28
            THEN LET t  == [e |-> x.e, hi |-> H \div 2,
                            lo |-> (L0 \div 2) + (H % 2) * 2^25]
                     up == L0 % 2 = 1 /\ t.lo % 2 = 1
                 IN  IF up THEN FloatNextUp(t) ELSE t
            ELSE LET t  == [e |-> x.e + 1, hi |-> H \div 4,
                            lo |-> (L0 \div 4) + (H % 4) * 2^24]
                     up == \/ L0 % 4 = 3
                           \/ L0 % 4 = 2 /\ t.lo % 2 = 1
                 IN  IF up THEN FloatNextUp(t) ELSE t

\* min(x, 1.0)
FloatMin1(x) == IF FloatLess(FloatOne, x) THEN FloatOne ELSE x

(***************************************************************************)
(* Similarity scorer: TravelPolicyRAG._calculate_similarity.               *)
(***************************************************************************)
\* the stop-word set with "the" left out
stop_words_without_the ==
   {"is", "at", "which", "on", "and", "a", "an", "as", "are",
    "was", "were", "in", "of", "to", "for", "with", "that", "it",
    "can", "i", "what", "when", "where", "how", "why", "my", "our"}

stop_words ==
   {"the", "is", "at", "which", "on", "and", "a", "an", "as", "are",
    "was", "were", "in", "of", "to", "for", "with", "that", "it",
    "can", "i", "what", "when", "where", "how", "why", "my", "our"}

\* the boost table, in the dict's insertion order
boost_terms ==
   << [key |-> "refund",         terms |-> <<"refund", "24 hours", "cancel">>],
      [key |-> "business class", terms |-> <<"business class", "economy", "flight class">>],
      [key |-> "hotel",          terms |-> <<"hotel", "accommodation", "room rate">>],
      [key |-> "meal",           terms |-> <<"meal", "allowance", "per diem">>],
      [key |-> "air china",      terms |-> <<"air china", "preferred carrier">>],
      [key |-> "visa",           terms |-> <<"visa", "passport", "documentation">>],
      [key |-> "insurance",      terms |-> <<"insurance", "coverage", "emergency">>] >>

\* query_words: the distinct tokens of the lowercased query minus stop words
QueryWords(query) == FindWords(Lower(query)) \ stop_words

\* any(term in text for term in terms)
AnyTermIn(terms, text) == \E j \in 1..Len(terms) : Contains(text, terms[j])

\* the extra 0.5 given to a query word that is one of doc_words, the tokens
\* of the document, rather than to one standing between two spaces
Matches2DocWords(query_words, doc_lower) ==
   LET sub   == {w \in query_words : Contains(doc_lower, w)}
       exact == sub \cap FindWords(doc_lower)
   IN  2 * Cardinality(sub) + Cardinality(exact)

\* twice the value of `matches` after the loop: 1 for each query word that is
\* a substring of the document, 0.5 more if it also is a space-delimited word
Matches2(query_words, doc_lower) ==
   LET sub   == {w \in query_words : Contains(doc_lower, w)}
       exact == {w \in sub : Contains(" " \o doc_lower \o " ", " " \o w \o " ")}
   IN  2 * Cardinality(sub) + Cardinality(exact)

\* the topics of boost_terms whose `if any(...)` pair holds: a term of the
\* topic in the query and a term of the topic in the document
BoostedTopics(query_lower, doc_lower) ==
   {i \in 1..Len(boost_terms) :
       /\ AnyTermIn(boost_terms[i].terms, query_lower)
       /\ AnyTermIn(boost_terms[i].terms, doc_lower)}

\* score *= 1.5, k times (once per boosted topic of the loop)
RECURSIVE ApplyBoosts(_, _)
ApplyBoosts(score, k) ==
   IF k = 0 THEN score ELSE FloatMul15(ApplyBoosts(score, k - 1))

\* the final cap, min(score, 1.0), without the cap
CapScoreDropped(score) == score

\* the final cap, min(score, 1.0)
CapScore(score) == FloatMin1(score)

\* `score` when the boost loop ends, had each boosted topic also counted as
\* one matched word
BoostedScoreTopicMatched(query, document) ==
   LET query_lower == Lower(query)
       doc_lower   == Lower(document)
       query_words == QueryWords(query)
       boosts      == Cardinality(BoostedTopics(query_lower, doc_lower))
       score       == FloatDiv(Matches2(query_words, doc_lower) + 2 * boosts,
                               2 * Cardinality(query_words))
   IN  ApplyBoosts(score, boosts)

\* `score` when the boost loop ends, for a query with some non-stop word
BoostedScore(query, document) ==
   LET query_lower == Lower(query)
       doc_lower   == Lower(document)
       query_words == QueryWords(query)
       score       == FloatDiv(Matches2(query_words, doc_lower),
                               2 * Cardinality(query_words))
       boosts      == Cardinality(BoostedTopics(query_lower, doc_lower))
   IN  ApplyBoosts(score, boosts)

_calculate_similarity(query, document) ==
   IF QueryWords(query) = {} THEN FloatZero
   ELSE CapScore(BoostedScore(query, document))

(***************************************************************************)
(* Optional[Dict[str, str]]: None, or a dict given as a function from its  *)
(* keys to its values (the empty dict is <<>>).                            *)
(***************************************************************************)
None == [isNone |-> TRUE]

Dict(d) == [isNone |-> FALSE, items |-> d]

\* `if filters:` - neither None nor an empty dict
Truthy(filters) == ~filters.isNone /\ DOMAIN filters.items # {}

\* dict.get(k): <<value>>, or <<>> for the None returned on a missing key
MetadataGet(metadata, k) ==
   IF k \in DOMAIN metadata THEN <<metadata[k]>> ELSE <<>>

\* the filter test with a missing key accepted, doc.metadata.get(k, v) == v
MatchesFiltersOrMissing(doc, items) ==
   \A k \in DOMAIN items :
      k \in DOMAIN doc.metadata => doc.metadata[k] = items[k]

\* all(doc.metadata.get(k) == v for k, v in filters.items())
MatchesFilters(doc, items) ==
   \A k \in DOMAIN items : MetadataGet(doc.metadata, k) = <<items[k]>>

(***************************************************************************)
(* Bounds and inputs of the model.                                         *)
(***************************************************************************)
\* a query is made of at most MaxQueryParts parts
MaxQueryParts == 2

\* retrieve is called with top_k up to MaxTopK
MaxTopK == 3

\* generate_answer is called directly with at most MaxContext documents
MaxContext == 2

\* the questions of demo_rag_system
DemoQuestions ==
   {"Can I refund my ticket within 24 hours?",
    "What's the minimum hotel rate I can book for a trip to Boston?",
    "Can I book business class for my flight from Shanghai to Beijing?",
    "What are the benefits with Air China?",
    "What's the meal allowance for international travel?"}

\* the parts of the other queries: a stop word, a word that is only a
\* substring of corpus words ("rates", "corporate"), four words found in no
\* document, and words and phrases of the boost table that are in the corpus
QueryParts == {"The", "rate", "zz yy xx ww", "hotel", "refund", "24 hours"}

\* " ".join(parts)
RECURSIVE JoinParts(_)
JoinParts(parts) ==
   IF Len(parts) = 0 THEN ""
   ELSE IF Len(parts) = 1 THEN parts[1]
   ELSE parts[1] \o " " \o JoinParts(Tail(parts))

PartsQueries(parts, max) ==
   {JoinParts(p) : p \in UNION {[1..n -> parts] : n \in 0..max}}

\* the query strings passed to _calculate_similarity, retrieve and query
Queries == DemoQuestions \cup PartsQueries(QueryParts, MaxQueryParts)

\* the filters passed to retrieve and query: absent, empty, the filter of
\* demo_rag_system, filters on one and on two keys, a key no document has
FilterValues ==
   {None,
    Dict(<<>>),
    Dict([vendor |-> "Air China"]),
    Dict([region |-> "global"]),
    Dict([region |-> "international"]),
    Dict([category |-> "changes", region |-> "global"]),
    Dict([team |-> "sales"])}

\* the top_k values passed to retrieve, negative ones included
TopKValues == (-2)..MaxTopK

\* the document texts passed to _calculate_similarity: the corpus texts, an
\* empty text, a short text ending in a query word and a short text with a
\* query word inside a longer word
DocumentTexts ==
   {LoadDocuments[i].content : i \in 1..Len(LoadDocuments)}
      \cup {"", "Hotel refund", "Ticketing refund"}

\* _calculate_similarity tabulated over the inputs above (it is a pure
\* function of its two arguments; TLC evaluates the table once)
SimilarityTable ==
   [q \in Queries |-> [t \in DocumentTexts |-> _calculate_similarity(q, t)]]

Similarity(query, document) ==
   IF query \in Queries /\ document \in DocumentTexts
   THEN SimilarityTable[query][document]
   ELSE _calculate_similarity(query, document)

\* the parts of the queries passed to generate_answer directly: the words and
\* phrases the rules of _simulate_llm_response look for, and one they do not
AnswerParts ==
   {"refund", "24", "Refund within 24 hours", "Business class", "hotel",
    "hotel policy", "hotel limit", "maximum hotel", "meal", "food",
    "allowance", "Air China", "insurance", "visa", "passport", "trip"}

AnswerQueries == PartsQueries(AnswerParts, 2)

\* the context lists passed to generate_answer directly: the runs of at most
\* MaxContext consecutive documents of the corpus, and the empty list
ContextLists(docs) ==
   {<<>>} \cup
   UNION {{SubSeq(docs, i, i + n - 1) : i \in 1..(Len(docs) - n + 1)} :
             n \in 1..MaxContext}

\* a document longer than the 300 characters the fallback answer keeps, and
\* context lists with it (generate_answer takes any list of documents)
LongDocument ==
   [id       |-> "policy_long",
    content  |-> LoadDocuments[1].content \o " " \o LoadDocuments[2].content,
    metadata |-> [category |-> "general"]]

LongContexts ==
   {<<LongDocument>>,
    <<LongDocument, LoadDocuments[1]>>,
    <<LoadDocuments[10], LongDocument>>}

\* the inputs of the runs that compare two calls
HistoryQueries ==
   {"", "rate", "24 hours", "hotel refund",
    "What are the benefits with Air China?"}

HistoryFilters == {None, Dict([region |-> "global"]), Dict([vendor |-> "Air China"])}

HistoryAnswerQueries == {"meal", "hotel policy", "Business class insurance", "trip"}

(***************************************************************************)
(* Retriever: TravelPolicyRAG.retrieve.                                    *)
(***************************************************************************)
\* the literal 0.2 of `score > 0.2`: the double nearest to 1/5
Threshold == FloatDiv(1, 5)

\* candidate_docs: the corpus, or the documents matching a truthy filter
CandidateDocs(docs, filters) ==
   IF Truthy(filters)
   THEN SelectSeq(docs, LAMBDA doc : MatchesFilters(doc, filters.items))
   ELSE docs

\* the sort left out: doc_scores stays in candidate order
SortSkipped(doc_scores) == doc_scores

\* the sort done as an ascending sort followed by list.reverse(): descending
\* by score, but entries of equal score end in reverse order
SortAscendingReversed(doc_scores) ==
   LET n == Len(doc_scores)
       Before(j, i) == \/ FloatLess(doc_scores[i].score, doc_scores[j].score)
                       \/ /\ doc_scores[j].score = doc_scores[i].score
                          /\ j > i
       Rank(i) == 1 + Cardinality({j \in 1..n : Before(j, i)})
   IN  [r \in 1..n |-> doc_scores[CHOOSE i \in 1..n : Rank(i) = r]]

\* list.sort(key=lambda x: x[1], reverse=True): descending by score, entries
\* of equal score keeping their order (the sort is stable). Entry i moves to
\* position 1 + the number of entries that must precede it.
SortByScoreDesc(doc_scores) ==
   LET n == Len(doc_scores)
       Before(j, i) == \/ FloatLess(doc_scores[i].score, doc_scores[j].score)
                       \/ /\ doc_scores[j].score = doc_scores[i].score
                          /\ j < i
       Rank(i) == 1 + Cardinality({j \in 1..n : Before(j, i)})
   IN  [r \in 1..n |-> doc_scores[CHOOSE i \in 1..n : Rank(i) = r]]

\* the slice s[:k]: the first k entries, or all but the last -k when k < 0
SliceTo(s, k) ==
   IF k >= 0 THEN SubSeq(s, 1, IF k < Len(s) THEN k ELSE Len(s))
   ELSE IF Len(s) + k > 0 THEN SubSeq(s, 1, Len(s) + k)
   ELSE <<>>

\* the test of the returned comprehension written `score >= 0.2`
AtOrAboveThreshold(score) == ~FloatLess(score, Threshold)

\* the test of the returned comprehension, `score > 0.2`
AboveThreshold(score) == FloatLess(Threshold, score)

\* doc_scores when the scoring loop ends: (doc, score) in candidate order
ScoreDocs(candidate_docs, query) ==
   [i \in 1..Len(candidate_docs) |->
      [doc   |-> candidate_docs[i],
       score |-> Similarity(query, candidate_docs[i].content)]]

\* doc_scores of the loop of lines 158-161, then the sort
DocScores(candidate_docs, query) ==
   SortByScoreDesc(ScoreDocs(candidate_docs, query))

\* [doc for doc, score in doc_scores[:top_k] if score > 0.2]
TopDocs(doc_scores, top_k) ==
   LET kept == SelectSeq(SliceTo(doc_scores, top_k),
                         LAMBDA entry : AboveThreshold(entry.score))
   IN  [i \in 1..Len(kept) |-> kept[i].doc]

retrieve(docs, query, top_k, filters) ==
   LET candidate_docs == CandidateDocs(docs, filters)
   IN  IF candidate_docs = <<>> THEN <<>>
       ELSE TopDocs(DocScores(candidate_docs, query), top_k)

\* self.documents when retrieve returns, had the filtered list been stored
\* back (`self.documents = [doc for doc in ...]`)
DocumentsReplacedByCandidates(docs, query, top_k, filters) ==
   CandidateDocs(docs, filters)

\* self.documents when retrieve returns, had the sort been applied to the
\* candidate list: without a truthy filter that list is self.documents itself
DocumentsSortedInPlace(docs, query, top_k, filters) ==
   IF Truthy(filters) \/ docs = <<>> THEN docs
   ELSE LET sorted == DocScores(docs, query)
        IN  [i \in 1..Len(sorted) |-> sorted[i].doc]

\* self.documents when retrieve returns: the method reads the list (the
\* candidates are a new list or an alias that is only iterated, and the sort
\* is applied to the new list doc_scores), so the corpus is as it was
DocumentsAfterRetrieve(docs, query, top_k, filters) == docs

(***************************************************************************)
(* Answer synthesizer: generate_answer and _simulate_llm_response.         *)
(***************************************************************************)
NoPolicyAnswer == "No policy about that. Please contact support."

RefundAnswer ==
   "Yes, according to company policy, flight tickets can be refunded within 24 hours of booking for a full refund. After 24 hours, refunds incur a $200 fee for domestic flights and $400 for international flights."

BusinessClassAnswer ==
   "According to company policy, business class is only approved for international flights over 6 hours duration. For domestic flights, you must book economy class unless the flight exceeds 4 hours, in which case premium economy is permitted."

HotelAnswer ==
   "The company hotel policy limits are $200 USD per night for domestic travel and $300 USD for international travel. You can book up to 4-star hotels without approval. 5-star hotels require manager approval."

MealAnswer ==
   "The daily meal allowance is $50 for domestic travel and $75 for international travel. Remember to keep receipts for all expenses over $25, and note that alcohol is not reimbursable."

AirChinaAnswer ==
   "Air China is our preferred carrier for China domestic routes. Use corporate code EBUDDY2025 for discounts, priority check-in, and 2 free checked bags. You can make changes up to 6 hours before departure without fees."

InsuranceAnswer ==
   "Travel insurance is mandatory for all international trips. It covers medical emergencies, trip cancellation, and lost luggage. The premium is company-paid, and claims must be filed within 30 days of any incident."

VisaAnswer ==
   "The company covers visa fees for business travel. Applications must be submitted 30 days before travel. Your passport must be valid for 6 months beyond travel dates. Keep copies of all documents in the company portal."

\* the `context` string of generate_answer, "Policy 1: ..." and so on, joined
\* by blank lines, for the documents from position i on
RECURSIVE PolicyContext(_, _)
PolicyContext(context_docs, i) ==
   IF i > Len(context_docs) THEN ""
   ELSE "Policy " \o ToString(i) \o ": " \o context_docs[i].content
           \o (IF i < Len(context_docs) THEN "\n\n" ELSE "")
           \o PolicyContext(context_docs, i + 1)

\* the fallback answer taken from the joined context instead of first_doc
FallbackAnswerFromContext(context_docs) ==
   "Based on company travel policies: "
      \o Prefix(PolicyContext(context_docs, 1), 300) \o "..."

\* the else branch: the first 300 characters of the first context document
FallbackAnswer(context_docs) ==
   LET first_doc == IF context_docs # <<>> THEN context_docs[1].content ELSE ""
   IN  "Based on company travel policies: " \o Prefix(first_doc, 300) \o "..."

\* the chain with the insurance rule tested before the business-class rule
_simulate_llm_response_reordered(query, context_docs) ==
   LET query_lower == Lower(query)
       has(t) == Contains(query_lower, t)
   IN  IF has("refund") /\ has("24") THEN RefundAnswer
       ELSE IF has("insurance") THEN InsuranceAnswer
       ELSE IF has("hotel") /\ (has("limit") \/ has("maximum") \/ has("policy"))
            THEN HotelAnswer
       ELSE IF has("meal") \/ has("food") \/ has("allowance") THEN MealAnswer
       ELSE IF has("air china") THEN AirChinaAnswer
       ELSE IF has("business class") THEN BusinessClassAnswer
       ELSE IF has("visa") \/ has("passport") THEN VisaAnswer
       ELSE FallbackAnswer(context_docs)

\* the chain with the meal rule answering from the first context document
_simulate_llm_response_excerpt(query, context_docs) ==
   LET query_lower == Lower(query)
       has(t) == Contains(query_lower, t)
   IN  IF has("refund") /\ has("24") THEN RefundAnswer
       ELSE IF has("business class") THEN BusinessClassAnswer
       ELSE IF has("hotel") /\ (has("limit") \/ has("maximum") \/ has("policy"))
            THEN HotelAnswer
       ELSE IF has("meal") \/ has("food") \/ has("allowance")
            THEN FallbackAnswer(context_docs)
       ELSE IF has("air china") THEN AirChinaAnswer
       ELSE IF has("insurance") THEN InsuranceAnswer
       ELSE IF has("visa") \/ has("passport") THEN VisaAnswer
       ELSE FallbackAnswer(context_docs)

\* the if/elif chain; the `context` argument is never read and is left out
_simulate_llm_response(query, context_docs) ==
   LET query_lower == Lower(query)
       has(t) == Contains(query_lower, t)
   IN  IF has("refund") /\ has("24") THEN RefundAnswer
       ELSE IF has("business class") THEN BusinessClassAnswer
       ELSE IF has("hotel") /\ (has("limit") \/ has("maximum") \/ has("policy"))
            THEN HotelAnswer
       ELSE IF has("meal") \/ has("food") \/ has("allowance") THEN MealAnswer
       ELSE IF has("air china") THEN AirChinaAnswer
       ELSE IF has("insurance") THEN InsuranceAnswer
       ELSE IF has("visa") \/ has("passport") THEN VisaAnswer
       ELSE FallbackAnswer(context_docs)

\* generate_answer without the `if not context_docs` return
generate_answer_unguarded(query, context_docs) ==
   _simulate_llm_response(query, context_docs)

generate_answer(query, context_docs) ==
   IF context_docs = <<>> THEN NoPolicyAnswer
   ELSE _simulate_llm_response(query, context_docs)

(***************************************************************************)
(* Query orchestrator: TravelPolicyRAG.query.                              *)
(***************************************************************************)
\* the `sources` comprehension with the content cut at 300 characters
SourcesCutAt300(retrieved_docs) ==
   [i \in 1..Len(retrieved_docs) |->
      [id      |-> retrieved_docs[i].id,
       content |-> Prefix(retrieved_docs[i].content, 300) \o "..."]]

\* the `sources` comprehension: id and content[:200] + "..."
Sources(retrieved_docs) ==
   [i \in 1..Len(retrieved_docs) |->
      [id      |-> retrieved_docs[i].id,
       content |-> Prefix(retrieved_docs[i].content, 200) \o "..."]]

\* query with a falsy filters argument reported as None (`filters or None`)
query_filters_or_none(docs, question, filters) ==
   LET retrieved_docs == retrieve(docs, question, 3, filters)
   IN  [question        |-> question,
        answer          |-> generate_answer(question, retrieved_docs),
        sources         |-> Sources(retrieved_docs),
        filters_applied |-> IF Truthy(filters) THEN filters ELSE None]

query(docs, question, filters) ==
   LET retrieved_docs == retrieve(docs, question, 3, filters)
   IN  [question        |-> question,
        answer          |-> generate_answer(question, retrieved_docs),
        sources         |-> Sources(retrieved_docs),
        filters_applied |-> filters]

(***************************************************************************)
(* The state: the corpus of the TravelPolicyRAG instance, the call the     *)
(* host is making (its arguments and what it returned) and, for the        *)
(* properties that compare two calls, one earlier call kept aside; for the  *)
(* calls that run at the same time, the local variables and the position   *)
(* of each thread inside query.                                            *)
(***************************************************************************)
VARIABLES documents, call, memo, threads

vars == <<documents, call, memo, threads>>

Idle == [op |-> "idle"]

\* the threads of the host that may run query at the same time, and a thread
\* that is not inside a call
Threads == {"t1", "t2"}

ThreadIdle == [pc |-> "idle"]

\* TravelPolicyRAG(): documents = [] and then _load_documents()
Init ==
   /\ documents = LoadDocuments
   /\ call = Idle
   /\ memo = Idle
   /\ threads = [t \in Threads |-> ThreadIdle]

CalculateSimilarity(q, text) ==
   /\ call = Idle
   /\ call' = [op       |-> "_calculate_similarity",
               query    |-> q,
               document |-> text,
               score    |-> Similarity(q, text)]
   /\ UNCHANGED <<documents, memo, threads>>

Retrieve(q, k, f) ==
   /\ call = Idle
   /\ call' = [op      |-> "retrieve",
               query   |-> q,
               top_k   |-> k,
               filters |-> f,
               docs    |-> retrieve(documents, q, k, f)]
   /\ documents' = DocumentsAfterRetrieve(documents, q, k, f)
   /\ UNCHANGED <<memo, threads>>

GenerateAnswer(q, context_docs) ==
   /\ call = Idle
   /\ call' = [op           |-> "generate_answer",
               query        |-> q,
               context_docs |-> context_docs,
               answer       |-> generate_answer(q, context_docs)]
   /\ UNCHANGED <<documents, memo, threads>>

Query(q, f) ==
   /\ call = Idle
   /\ call' = [op       |-> "query",
               question |-> q,
               filters  |-> f,
               result   |-> query(documents, q, f)]
   /\ documents' = DocumentsAfterRetrieve(documents, q, 3, f)
   /\ UNCHANGED <<memo, threads>>

\* the host is done with the returned value and goes on to its next call
Return ==
   /\ call # Idle
   /\ call' = Idle
   /\ UNCHANGED <<documents, memo, threads>>

\* the host goes on to its next call and keeps the returned value aside, to
\* compare it with what a later call returns
Remember ==
   /\ call # Idle
   /\ memo' = call
   /\ call' = Idle
   /\ UNCHANGED <<documents, threads>>

Next ==
   \/ \E q \in Queries : \E text \in DocumentTexts : CalculateSimilarity(q, text)
   \/ \E q \in Queries : \E k \in TopKValues : \E f \in FilterValues :
         Retrieve(q, k, f)
   \/ \E q \in AnswerQueries :
         \E c \in ContextLists(documents) \cup LongContexts :
            GenerateAnswer(q, c)
   \/ \E q \in Queries : \E f \in FilterValues : Query(q, f)
   \/ Return

Spec == Init /\ [][Next]_vars

NextHistory ==
   \/ \E q \in HistoryQueries : \E f \in HistoryFilters : Query(q, f)
   \/ \E q \in HistoryAnswerQueries : \E c \in ContextLists(documents) :
         GenerateAnswer(q, c)
   \/ Remember
   \/ Return

SpecHistory == Init /\ [][NextHistory]_vars

(***************************************************************************)
(* query run by several threads at once. A call's local variables          *)
(* (candidate_docs, doc_scores, retrieved_docs) belong to its thread;      *)
(* self.documents is the one object the threads share. Each step below is  *)
(* one stretch of query and retrieve between two points where the          *)
(* interpreter may switch threads.                                         *)
(***************************************************************************)
ConcurrentQueries == {"rate", "24 hours", "hotel refund"}

ConcurrentFilters == {None, Dict([region |-> "global"])}

\* another thread is inside query while thread t takes a step
OthersRunning(t) == \E u \in Threads \ {t} : threads[u].pc \notin {"idle", "done"}

\* the list candidate_docs names: self.documents itself after line 146, the
\* new list of the comprehension after lines 148-152
CandidateList(docs, th) ==
   IF th.candidate_docs.alias THEN docs ELSE th.candidate_docs.list

\* self.documents after line 164, had the sort been done on candidate_docs
\* (self.documents itself when there is no filter) instead of doc_scores
DocumentsSortedByThread(docs, th) ==
   IF th.candidate_docs.alias /\ Len(th.doc_scores) = Len(docs)
   THEN LET sorted == SortByScoreDesc(th.doc_scores)
        IN  [i \in 1..Len(sorted) |-> sorted[i].doc]
   ELSE docs

\* self.documents after line 164: doc_scores.sort() sorts the thread's own
\* list of pairs
DocumentsAfterSort(docs, th) == docs

\* query is entered; retrieve binds candidate_docs to self.documents
StartQuery(t, q, f) ==
   /\ threads[t].pc = "idle"
   /\ threads' = [threads EXCEPT ![t] =
         [pc             |-> "filter",
          question       |-> q,
          filters        |-> f,
          candidate_docs |-> [alias |-> TRUE],
          doc_scores     |-> <<>>,
          retrieved_docs |-> <<>>,
          interleaved    |-> OthersRunning(t)]]
   /\ UNCHANGED <<documents, call, memo>>

\* lines 147-155: the filter comprehension and the return of [] when no
\* candidate is left
FilterStep(t) ==
   /\ threads[t].pc = "filter"
   /\ LET th     == threads[t]
          chosen == IF Truthy(th.filters)
                    THEN [alias |-> FALSE,
                          list  |-> CandidateDocs(documents, th.filters)]
                    ELSE th.candidate_docs
          empty  == IF chosen.alias THEN documents = <<>>
                    ELSE chosen.list = <<>>
      IN  threads' = [threads EXCEPT ![t] =
             [th EXCEPT !.candidate_docs = chosen,
                        !.pc = IF empty THEN "synthesize" ELSE "score",
                        !.interleaved = @ \/ OthersRunning(t)]]
   /\ UNCHANGED <<documents, call, memo>>

\* lines 157-161: the scoring loop
ScoreStep(t) ==
   /\ threads[t].pc = "score"
   /\ LET th == threads[t]
      IN  threads' = [threads EXCEPT ![t] =
             [th EXCEPT !.doc_scores =
                           ScoreDocs(CandidateList(documents, th), th.question),
                        !.pc = "sort",
                        !.interleaved = @ \/ OthersRunning(t)]]
   /\ UNCHANGED <<documents, call, memo>>

\* line 164: doc_scores.sort(key=..., reverse=True)
SortStep(t) ==
   /\ threads[t].pc = "sort"
   /\ LET th == threads[t]
      IN  /\ threads' = [threads EXCEPT ![t] =
                [th EXCEPT !.doc_scores = SortByScoreDesc(th.doc_scores),
                           !.pc = "truncate",
                           !.interleaved = @ \/ OthersRunning(t)]]
          /\ documents' = DocumentsAfterSort(documents, th)
   /\ UNCHANGED <<call, memo>>

\* line 165: the slice to top_k = 3 and the threshold
TruncateStep(t) ==
   /\ threads[t].pc = "truncate"
   /\ LET th == threads[t]
      IN  threads' = [threads EXCEPT ![t] =
             [th EXCEPT !.retrieved_docs = TopDocs(th.doc_scores, 3),
                        !.pc = "synthesize",
                        !.interleaved = @ \/ OthersRunning(t)]]
   /\ UNCHANGED <<documents, call, memo>>

\* lines 218-225: generate_answer and the result dict
SynthesizeStep(t) ==
   /\ threads[t].pc = "synthesize"
   /\ LET th == threads[t]
      IN  threads' = [threads EXCEPT ![t] =
             [pc          |-> "done",
              question    |-> th.question,
              filters     |-> th.filters,
              interleaved |-> th.interleaved \/ OthersRunning(t),
              result      |->
                 [question        |-> th.question,
                  answer          |-> generate_answer(th.question,
                                                      th.retrieved_docs),
                  sources         |-> Sources(th.retrieved_docs),
                  filters_applied |-> th.filters]]]
   /\ UNCHANGED <<documents, call, memo>>

\* the thread is done with the result of its call
ReturnQuery(t) ==
   /\ threads[t].pc = "done"
   /\ threads' = [threads EXCEPT ![t] = ThreadIdle]
   /\ UNCHANGED <<documents, call, memo>>

NextConcurrent ==
   \E t \in Threads :
      \/ \E q \in ConcurrentQueries : \E f \in ConcurrentFilters :
            StartQuery(t, q, f)
      \/ FilterStep(t)
      \/ ScoreStep(t)
      \/ SortStep(t)
      \/ TruncateStep(t)
      \/ SynthesizeStep(t)
      \/ ReturnQuery(t)

SpecConcurrent == Init /\ [][NextConcurrent]_vars

(***************************************************************************)
(* Properties.                                                             *)
(***************************************************************************)
\* x <= y on doubles
FloatLeq(x, y) == ~FloatLess(y, x)

\* C1: whatever the query and the document text, the score returned by
\* _calculate_similarity lies in [0.0, 1.0], however many tokens match and
\* however many boost topics compound.
C1_ScoreWithinUnitInterval ==
   call.op = "_calculate_similarity" =>
      FloatLeq(FloatZero, call.score) /\ FloatLeq(call.score, FloatOne)

\* C1 witness: a call in which two or more topics boosted the score past 1.0
\* and 1.0 was returned.
C1_Witness ==
   /\ call.op = "_calculate_similarity"
   /\ QueryWords(call.query) # {}
   /\ Cardinality(BoostedTopics(Lower(call.query), Lower(call.document))) >= 2
   /\ FloatLess(FloatOne, BoostedScore(call.query, call.document))
   /\ call.score = FloatOne

\* the members of a sequence
Range(s) == {s[i] : i \in 1..Len(s)}

\* the position of a document in self.documents
CorpusIndex(doc) == CHOOSE i \in 1..Len(documents) : documents[i] = doc

\* the documents a retrieve call returned; for a query call, the documents
\* its sources name
ReturnedDocs ==
   IF call.op = "retrieve" THEN call.docs
   ELSE IF call.op = "query"
        THEN [i \in 1..Len(call.result.sources) |->
                CHOOSE doc \in Range(documents) :
                   doc.id = call.result.sources[i].id]
   ELSE <<>>

\* the query text of the call, whichever operation it is
CallQuery == IF call.op = "query" THEN call.question ELSE call.query

\* C2: every document retrieve returns has a similarity score strictly
\* greater than 0.2; a candidate whose score is exactly 0.2 is never
\* returned, even when it is within the top_k highest-scoring candidates.
C2_ReturnedAboveThreshold ==
   call.op \in {"retrieve", "query"} =>
      \A doc \in Range(ReturnedDocs) :
         /\ FloatLess(Threshold, Similarity(CallQuery, doc.content))
         /\ Similarity(CallQuery, doc.content) # Threshold

\* C2 witness: a retrieve call in which a candidate scoring exactly 0.2 was
\* among the top_k best candidates and was left out of the result.
C2_Witness ==
   /\ call.op = "retrieve"
   /\ call.top_k >= 1
   /\ \E entry \in Range(SliceTo(DocScores(CandidateDocs(documents,
                                                         call.filters),
                                           call.query), call.top_k)) :
         /\ entry.score = Threshold
         /\ entry.doc \notin Range(call.docs)

\* C3 as stated: for every integer top_k the result of retrieve has at most
\* top_k documents.
C3_LengthAtMostTopK ==
   call.op = "retrieve" => Len(call.docs) <= call.top_k

\* C3 on the non-negative values of top_k: for every top_k >= 0 the result of
\* retrieve has at most top_k documents. (For top_k < 0 the slice
\* doc_scores[:top_k] drops the last -top_k candidates only.)
C3_LengthAtMostNonNegativeTopK ==
   (call.op = "retrieve" /\ call.top_k >= 0) =>
      Len(call.docs) <= call.top_k

\* C3 witness: a retrieve call with top_k >= 1 in which more than top_k
\* candidates scored above the threshold and exactly top_k were returned.
C3_Witness ==
   /\ call.op = "retrieve"
   /\ call.top_k >= 1
   /\ Cardinality({doc \in Range(CandidateDocs(documents, call.filters)) :
         FloatLess(Threshold, Similarity(call.query, doc.content))})
        > call.top_k
   /\ Len(call.docs) = call.top_k

\* C4: with a non-empty filters mapping, every returned document's metadata
\* has every filter key with exactly the filter's value; a document lacking
\* a filter key never matches, and a filter key no document carries gives an
\* empty result.
C4_FilterCorrectness ==
   (call.op \in {"retrieve", "query"} /\ Truthy(call.filters)) =>
      /\ \A doc \in Range(ReturnedDocs) :
            \A k \in DOMAIN call.filters.items :
               /\ k \in DOMAIN doc.metadata
               /\ doc.metadata[k] = call.filters.items[k]
      /\ (\E k \in DOMAIN call.filters.items :
             \A doc \in Range(documents) : k \notin DOMAIN doc.metadata)
            => ReturnedDocs = <<>>

\* C4 witness: a retrieve call with a filter that returned documents while a
\* document lacking a filter key scored above the threshold.
C4_Witness ==
   /\ call.op = "retrieve"
   /\ Truthy(call.filters)
   /\ call.docs # <<>>
   /\ Len(call.docs) < call.top_k
   /\ \E doc \in Range(documents) :
         /\ \E k \in DOMAIN call.filters.items : k \notin DOMAIN doc.metadata
         /\ FloatLess(Threshold, Similarity(call.query, doc.content))

\* C5: the documents retrieve returns are in non-increasing order of score,
\* and documents of equal score keep their relative order in the corpus.
C5_SortedStable ==
   call.op \in {"retrieve", "query"} =>
      \A i, j \in 1..Len(ReturnedDocs) :
         i < j =>
            LET si == Similarity(CallQuery, ReturnedDocs[i].content)
                sj == Similarity(CallQuery, ReturnedDocs[j].content)
            IN  /\ FloatLeq(sj, si)
                /\ si = sj => CorpusIndex(ReturnedDocs[i])
                                 < CorpusIndex(ReturnedDocs[j])

\* C5 witness: a retrieve call that returned two documents of equal score
\* after a document of strictly greater score.
C5_Witness ==
   /\ call.op = "retrieve"
   /\ Len(call.docs) >= 3
   /\ \E i, j \in 1..Len(call.docs) :
         /\ 1 < i /\ i < j
         /\ Similarity(call.query, call.docs[i].content)
               = Similarity(call.query, call.docs[j].content)
         /\ FloatLess(Similarity(call.query, call.docs[i].content),
                      Similarity(call.query, call.docs[1].content))

\* the query has no token outside the stop words (the empty query included)
OnlyStopWords(q) ==
   FindWords(Lower(q)) \subseteq
      {"the", "is", "at", "which", "on", "and", "a", "an", "as", "are",
       "was", "were", "in", "of", "to", "for", "with", "that", "it",
       "can", "i", "what", "when", "where", "how", "why", "my", "our"}

\* C6: for a query that is empty or made of stop words only,
\* _calculate_similarity returns 0.0 for every document, retrieve returns
\* the empty list and query answers with the no-policy message.
C6_StopWordQuery ==
   /\ (call.op = "_calculate_similarity" /\ OnlyStopWords(call.query))
         => call.score = FloatZero
   /\ (call.op = "retrieve" /\ OnlyStopWords(call.query))
         => call.docs = <<>>
   /\ (call.op = "query" /\ OnlyStopWords(call.question))
         => /\ call.result.answer = NoPolicyAnswer
            /\ call.result.sources = <<>>

\* C6 witness: a query call whose question is a stop word that occurs in
\* documents of the corpus, answered with the no-policy message.
C6_Witness ==
   /\ call.op = "query"
   /\ call.question # ""
   /\ FindWords(Lower(call.question)) # {}
   /\ OnlyStopWords(call.question)
   /\ call.filters = None
   /\ \E doc \in Range(documents) :
         \E w \in FindWords(Lower(call.question)) :
            Contains(Lower(doc.content), w)
   /\ call.result.answer = NoPolicyAnswer

\* C7: query is idempotent and independent of history: two calls with the
\* same question and filters on the same instance return equal results,
\* whatever calls were made in between.
C7_QueryIdempotent ==
   (/\ call.op = "query"
    /\ memo.op = "query"
    /\ call.question = memo.question
    /\ call.filters = memo.filters) => call.result = memo.result

\* C7 witness: a query call that returned sources, made after an earlier
\* call with the same question and filters had returned.
C7_Witness ==
   /\ call.op = "query"
   /\ memo.op = "query"
   /\ call.question = memo.question
   /\ call.filters = memo.filters
   /\ Len(call.result.sources) >= 2
   /\ memo.result.sources # <<>>

\* C8: query returns a dict with question, answer, sources and
\* filters_applied for every input; its answer is the no-policy message
\* exactly when sources is empty, and is otherwise a canned rule answer or
\* the fallback excerpt of the first retrieved document.
C8_AnswerMatchesSources ==
   call.op = "query" =>
      /\ DOMAIN call.result
            = {"question", "answer", "sources", "filters_applied"}
      /\ call.result.answer = NoPolicyAnswer <=> call.result.sources = <<>>
      /\ call.result.sources # <<>> =>
            call.result.answer \in
               {RefundAnswer, BusinessClassAnswer, HotelAnswer, MealAnswer,
                AirChinaAnswer, InsuranceAnswer, VisaAnswer,
                "Based on company travel policies: "
                   \o Prefix(ReturnedDocs[1].content, 300) \o "..."}

\* C8 witness: a query call whose filter left no document, for a question
\* that retrieves documents without the filter, answered with the no-policy
\* message and no sources.
C8_Witness ==
   /\ call.op = "query"
   /\ Truthy(call.filters)
   /\ retrieve(documents, call.question, 3, None) # <<>>
   /\ call.result.sources = <<>>
   /\ call.result.answer = NoPolicyAnswer

\* the conditions of the seven rules on the lowercased query, in the order
\* of the claim
RuleHolds(q) ==
   LET has(t) == Contains(Lower(q), t)
   IN  << has("refund") /\ has("24"),
          has("business class"),
          has("hotel") /\ (has("limit") \/ has("maximum") \/ has("policy")),
          has("meal") \/ has("food") \/ has("allowance"),
          has("air china"),
          has("insurance"),
          has("visa") \/ has("passport") >>

RuleAnswers ==
   << RefundAnswer, BusinessClassAnswer, HotelAnswer, MealAnswer,
      AirChinaAnswer, InsuranceAnswer, VisaAnswer >>

\* C9: with a non-empty context, the answer is that of the lowest-numbered
\* rule (refund+24, business class, hotel+limit/maximum/policy,
\* meal/food/allowance, air china, insurance, visa/passport) whose condition
\* holds on the lowercased query; later rules are not considered.
C9_FirstMatchingRule ==
   (call.op = "generate_answer" /\ call.context_docs # <<>>) =>
      \A n \in 1..7 :
         (RuleHolds(call.query)[n]
            /\ \A m \in 1..(n - 1) : ~RuleHolds(call.query)[m])
         => call.answer = RuleAnswers[n]

\* C9 witness: a generate_answer call whose query satisfies two rules and
\* was given the answer of the earlier one.
C9_Witness ==
   /\ call.op = "generate_answer"
   /\ call.context_docs # <<>>
   /\ \E n, m \in 1..7 :
         /\ 1 < n /\ n < m
         /\ RuleHolds(call.query)[n]
         /\ RuleHolds(call.query)[m]
         /\ \A l \in 1..(n - 1) : ~RuleHolds(call.query)[l]
         /\ call.answer = RuleAnswers[n]

\* C10: when the query satisfies one of the seven rules, the answer does not
\* depend on which documents were retrieved: two generate_answer calls with
\* that query and any two non-empty contexts return the same answer.
C10_CannedAnswerIgnoresContext ==
   (/\ call.op = "generate_answer"
    /\ memo.op = "generate_answer"
    /\ call.query = memo.query
    /\ call.context_docs # <<>>
    /\ memo.context_docs # <<>>
    /\ \E n \in 1..7 : RuleHolds(call.query)[n]) => call.answer = memo.answer

\* C10 witness: two generate_answer calls with one rule-matching query and
\* contexts that share no document.
C10_Witness ==
   /\ call.op = "generate_answer"
   /\ memo.op = "generate_answer"
   /\ call.query = memo.query
   /\ \E n \in 1..7 : RuleHolds(call.query)[n]
   /\ call.context_docs # <<>>
   /\ memo.context_docs # <<>>
   /\ Range(call.context_docs) \cap Range(memo.context_docs) = {}
   /\ call.answer = memo.answer

\* the documents of the corpus that pass the filters of a call: all of them
\* when filters is None or empty
PassFilters(f) ==
   {doc \in Range(documents) :
      Truthy(f) => \A k \in DOMAIN f.items :
                      k \in DOMAIN doc.metadata /\ doc.metadata[k] = f.items[k]}

\* doc ranks ahead of other for query q: a greater score, or the same score
\* and an earlier place in the corpus
RanksAhead(q, doc, other) ==
   \/ FloatLess(Similarity(q, other.content), Similarity(q, doc.content))
   \/ /\ Similarity(q, other.content) = Similarity(q, doc.content)
      /\ CorpusIndex(doc) < CorpusIndex(other)

\* the documents that pass the filters and score above 0.2 for query q
AboveThresholdDocs(q, f) ==
   {doc \in PassFilters(f) : FloatLess(Threshold, Similarity(q, doc.content))}

\* the first n characters of a text, all of it when it is shorter
CutTo(text, n) == SubSeq(text, 1, IF Len(text) > n THEN n ELSE Len(text))

\* C11: the sources of a query result have one entry per document that
\* retrieve returns with top_k = 3, at most 3, in rank order, each with the
\* document's id and the first 200 characters of its content followed by
\* "...".
C11_SourcesOfRetrieved ==
   call.op = "query" =>
      LET best == {doc \in AboveThresholdDocs(call.question, call.filters) :
                     Cardinality({other \in AboveThresholdDocs(call.question,
                                                               call.filters) :
                        RanksAhead(call.question, other, doc)}) < 3}
          sources == call.result.sources
      IN  /\ Len(sources) = Cardinality(best)
          /\ Len(sources) <= 3
          /\ \A i \in 1..Len(sources) :
                \E doc \in best :
                   /\ Cardinality({other \in best :
                         RanksAhead(call.question, other, doc)}) = i - 1
                   /\ sources[i].id = doc.id
                   /\ sources[i].content = CutTo(doc.content, 200) \o "..."
                   /\ DOMAIN sources[i] = {"id", "content"}

\* C11 witness: a query call with three sources although more than three
\* documents scored above the threshold, one of the sources being a cut
\* document.
C11_Witness ==
   /\ call.op = "query"
   /\ Cardinality(AboveThresholdDocs(call.question, call.filters)) > 3
   /\ Len(call.result.sources) = 3
   /\ \E i \in 1..3 : Len(ReturnedDocs[i].content) > 200
   /\ \A i \in 1..3 : Len(call.result.sources[i].content) <= 203

\* C12: the filters_applied field of a query result is the filters argument
\* as passed: None when absent, the empty mapping when empty, and the
\* mapping itself whether or not a document matched it.
C12_FiltersEchoed ==
   call.op = "query" => call.result.filters_applied = call.filters

\* C12 witness: a query call with an empty mapping as filters, reported as
\* the empty mapping and not as None.
C12_Witness ==
   /\ call.op = "query"
   /\ ~call.filters.isNone
   /\ ~Truthy(call.filters)
   /\ call.result.filters_applied = call.filters
   /\ call.result.filters_applied # None

\* C13: when query calls run at the same time on one instance, their steps
\* (filter, score, sort, truncate, synthesize) interleaved in any way, each
\* call returns the result it returns when run alone on the loaded corpus.
C13_ConcurrentAsAlone ==
   \A t \in Threads :
      threads[t].pc = "done" =>
         threads[t].result
            = query(LoadDocuments, threads[t].question, threads[t].filters)

\* C13 witness: a call that took a step while another call was in progress
\* has returned documents, and the other thread is in the middle of a call
\* with another question.
C13_Witness ==
   \E t \in Threads : \E u \in Threads \ {t} :
      /\ threads[t].pc = "done"
      /\ threads[t].interleaved
      /\ Len(threads[t].result.sources) >= 2
      /\ threads[u].pc \in {"score", "sort", "truncate"}
      /\ threads[u].interleaved
      /\ threads[u].question # threads[t].question

\* Q: the distinct tokens of the query that are not stop words
ScoreTokens(q) == {w \in FindWords(Lower(q)) : ~OnlyStopWords(w)}

\* the tokens of Q that are substrings of the lowercased document, and those
\* of them that also stand in it as a word between spaces (or text ends)
SubstringTokens(q, text) == {w \in ScoreTokens(q) : Contains(Lower(text), w)}

WholeWordTokens(q, text) ==
   {w \in SubstringTokens(q, text) :
      Contains(" " \o Lower(text) \o " ", " " \o w \o " ")}

\* t: the boost topics with a trigger phrase in the lowercased query and a
\* trigger phrase, the same or another, in the lowercased document
TriggeredTopics(q, text) ==
   {i \in 1..Len(boost_terms) :
      /\ \E j \in 1..Len(boost_terms[i].terms) :
            Contains(Lower(q), boost_terms[i].terms[j])
      /\ \E j \in 1..Len(boost_terms[i].terms) :
            Contains(Lower(text), boost_terms[i].terms[j])}

\* x * 1.5^t on doubles, one factor of 1.5 at a time
RECURSIVE TimesOneAndHalf(_, _)
TimesOneAndHalf(x, t) ==
   IF t = 0 THEN x ELSE FloatMul15(TimesOneAndHalf(x, t - 1))

\* C14: for a query with a non-empty set Q of distinct non-stop tokens the
\* score is min(1.0, (m / |Q|) * 1.5^t), m being 1 for each token of Q that
\* is a substring of the lowercased document plus 0.5 for each that also is
\* a space-delimited word of it, and t the number of boost topics with a
\* trigger in the query and a trigger in the document.
C14_ScoreFormula ==
   (call.op = "_calculate_similarity" /\ ScoreTokens(call.query) # {}) =>
      LET twice_m == 2 * Cardinality(SubstringTokens(call.query, call.document))
                       + Cardinality(WholeWordTokens(call.query, call.document))
          base    == FloatDiv(twice_m, 2 * Cardinality(ScoreTokens(call.query)))
          t       == Cardinality(TriggeredTopics(call.query, call.document))
      IN  call.score = FloatMin1(TimesOneAndHalf(base, t))

\* C14 witness: a call whose query has a token that is a substring only, a
\* token that is a whole word and a token that does not occur, with one
\* boost topic or more, and a score below 1.0.
C14_Witness ==
   /\ call.op = "_calculate_similarity"
   /\ SubstringTokens(call.query, call.document)
         # WholeWordTokens(call.query, call.document)
   /\ WholeWordTokens(call.query, call.document) # {}
   /\ SubstringTokens(call.query, call.document) # ScoreTokens(call.query)
   /\ TriggeredTopics(call.query, call.document) # {}
   /\ FloatLess(call.score, FloatOne)
   /\ FloatLess(FloatZero, call.score)

\* C15: with a non-empty context and a query no rule matches, the answer is
\* "Based on company travel policies: ", the content of the first context
\* document cut to at most 300 characters, and "..."; the other context
\* documents do not enter it.
C15_FallbackFromFirstDocument ==
   (/\ call.op = "generate_answer"
    /\ call.context_docs # <<>>
    /\ \A n \in 1..7 : ~RuleHolds(call.query)[n])
   => call.answer = "Based on company travel policies: "
                       \o CutTo(call.context_docs[1].content, 300) \o "..."

\* C15 witness: a fallback answer from a context of two documents whose
\* first document is longer than 300 characters: the answer has the 34
\* characters of the lead, 300 of the document and the 3 of "...".
C15_Witness ==
   /\ call.op = "generate_answer"
   /\ \A n \in 1..7 : ~RuleHolds(call.query)[n]
   /\ Len(call.context_docs) >= 2
   /\ Len(call.context_docs[1].content) > 300
   /\ Len(call.answer) = Len("Based on company travel policies: ") + 303

\* C16: no call to retrieve, generate_answer or query changes the corpus:
\* after any calls, with any filters, self.documents holds the documents of
\* _load_documents in the same order, with the same id, content and
\* metadata.
C16_CorpusUnchanged == documents = LoadDocuments

\* C16 witness: a retrieve call whose filters no document passes has
\* returned, and the corpus is as loaded.
C16_Witness ==
   /\ call.op = "retrieve"
   /\ Truthy(call.filters)
   /\ \A i \in 1..Len(LoadDocuments) :
         \E k \in DOMAIN call.filters.items :
            \/ k \notin DOMAIN LoadDocuments[i].metadata
            \/ LoadDocuments[i].metadata[k] # call.filters.items[k]
   /\ call.docs = <<>>
   /\ Len(documents) = 10
   /\ \A i \in 1..Len(documents) : documents[i] = LoadDocuments[i]

\* C17: for top_k >= 0, cutting the ranked candidates to top_k and then
\* dropping the scores <= 0.2 gives what dropping first and cutting second
\* gives: retrieve returns the first min(top_k, n) of the n filter-passing
\* documents scoring above 0.2, in rank order, and leaves such a document
\* out only when top_k documents rank ahead of it.
C17_TruncateThenFilter ==
   (call.op = "retrieve" /\ call.top_k >= 0) =>
      LET above == AboveThresholdDocs(call.query, call.filters)
          n     == Cardinality(above)
      IN  /\ Len(call.docs) = (IF call.top_k < n THEN call.top_k ELSE n)
          /\ \A i \in 1..Len(call.docs) :
                /\ call.docs[i] \in above
                /\ Cardinality({other \in above :
                      RanksAhead(call.query, other, call.docs[i])}) = i - 1
          /\ \A doc \in above \ Range(call.docs) :
                Cardinality({other \in above :
                   RanksAhead(call.query, other, doc)}) >= call.top_k

\* C17 witness: a retrieve call with top_k >= 1 in which a candidate at or
\* below the threshold stood among the filter-passing documents and a
\* document above the threshold was left out behind top_k returned ones.
C17_Witness ==
   /\ call.op = "retrieve"
   /\ call.top_k >= 1
   /\ Truthy(call.filters)
   /\ Len(call.docs) = call.top_k
   /\ AboveThresholdDocs(call.query, call.filters) \ Range(call.docs) # {}
   /\ PassFilters(call.filters)
         \ AboveThresholdDocs(call.query, call.filters) # {}

\* C18: when no non-stop token of the query is a substring of the lowercased
\* document the score is 0.0, also when boost topics occur in both query and
\* document (the boost multiplies a base of zero), and retrieve never
\* returns such a document.
C18_NoMatchScoresZero ==
   /\ (/\ call.op = "_calculate_similarity"
       /\ SubstringTokens(call.query, call.document) = {})
      => call.score = FloatZero
   /\ call.op \in {"retrieve", "query"} =>
         \A doc \in Range(ReturnedDocs) :
            SubstringTokens(CallQuery, doc.content) # {}

\* C18 witness: a call whose query has non-stop tokens, none of them in the
\* document, with a boost topic triggered in both, scored 0.0.
C18_Witness ==
   /\ call.op = "_calculate_similarity"
   /\ ScoreTokens(call.query) # {}
   /\ SubstringTokens(call.query, call.document) = {}
   /\ TriggeredTopics(call.query, call.document) # {}
   /\ call.score = FloatZero

====
